---- MODULE Spec2Model ----
(***************************************************************************)
(* Navmesh construction and point query of the 3D walkthrough demo         *)
(* (src/main.py): Level.merge_intervals, Level.union_of_rectangles,        *)
(* Level.update_navmesh, Level.is_in_navmesh and the camera update of the  *)
(* main loop.                                                              *)
(*                                                                         *)
(* Lengths are exact integers in units of 0.1 world units: the padding 0.3 *)
(* is 3 and one key's movement (move_speed 0.1) is 1. A rectangle is the   *)
(* tuple <<x1, z1, x2, z2>>, Python's r[0..3] being r[1..4] here.          *)
(***************************************************************************)
EXTENDS Integers, Sequences, FiniteSets, TLC

\* ---------------------------------------------------------------- bounds
MaxCoord == 2       \* rectangle coordinates handed to union_of_rectangles: 0..MaxCoord
MaxRects == 3       \* rectangles in one call of union_of_rectangles
MaxObjects == 2     \* objects of a Level
MaxPos == 1         \* object positions: DefaultPadding..DefaultPadding + MaxPos
MaxSize == 2        \* object width and depth: 0..MaxSize
MaxPad == 2         \* paddings of the query specification: 0..MaxPad
MaxDelta == 1       \* per-step camera deltas: -MaxDelta..MaxDelta

\* ------------------------------------------------------ program constants
DefaultPadding == 3 \* self.navmesh_padding = 0.3
CamStart == 0       \* cam_x, cam_y, cam_z = 0, 0, 0

VARIABLES
    pc,               \* where the modelled run stands: "loop"/"exited", "ask"/"answered", "call"/"ret"
    objects,          \* Level.objects
    navmesh,          \* Level.navmesh
    navmesh_padding,  \* Level.navmesh_padding
    cam_x, cam_z,     \* main's camera position
    qx, qz, qres,     \* one call of is_in_navmesh: its arguments and its result
    rects,            \* one call of union_of_rectangles: its argument
    disjoint_rects    \* ... and its result

vars == <<pc, objects, navmesh, navmesh_padding, cam_x, cam_z, qx, qz, qres,
          rects, disjoint_rects>>

\* ------------------------------------------------------------- built-ins
min(a, b) == IF a <= b THEN a ELSE b
max(a, b) == IF a >= b THEN a ELSE b

\* sorted(intervals, key=lambda x: x[0]) is stable: an interval goes behind
\* every interval already placed whose start is not larger.
RECURSIVE InsertByStart(_, _)
InsertByStart(iv, s) ==
    IF s = <<>> THEN <<iv>>
    ELSE IF iv[1] < Head(s)[1] THEN <<iv>> \o s
    ELSE <<Head(s)>> \o InsertByStart(iv, Tail(s))

\* Mutant: the intervals left in the order given.
SortedNoSort(s) == s

RECURSIVE sorted_by_start(_)
sorted_by_start(s) ==
    IF s = <<>> THEN <<>>
    ELSE InsertByStart(s[Len(s)], sorted_by_start(SubSeq(s, 1, Len(s) - 1)))

\* sorted(list(set(...))): the distinct values in ascending order.
RECURSIVE sorted_set(_)
sorted_set(S) ==
    IF S = {} THEN <<>>
    ELSE LET m == CHOOSE a \in S : \A b \in S : a <= b
         IN <<m>> \o sorted_set(S \ {m})

\* ------------------------------------------------- Level.merge_intervals
\* Mutants of the loop: the merge test against curr_start, the merge test
\* strict, and curr_end overwritten instead of max'ed.
RECURSIVE MergeLoopTestStart(_, _, _, _)
MergeLoopTestStart(rest, curr_start, curr_end, merged) ==
    IF rest = <<>> THEN Append(merged, <<curr_start, curr_end>>)
    ELSE LET nxt == Head(rest) IN
         IF nxt[1] <= curr_start
         THEN MergeLoopTestStart(Tail(rest), curr_start, max(curr_end, nxt[2]), merged)
         ELSE MergeLoopTestStart(Tail(rest), nxt[1], nxt[2],
                                 Append(merged, <<curr_start, curr_end>>))

RECURSIVE MergeLoopStrict(_, _, _, _)
MergeLoopStrict(rest, curr_start, curr_end, merged) ==
    IF rest = <<>> THEN Append(merged, <<curr_start, curr_end>>)
    ELSE LET nxt == Head(rest) IN
         IF nxt[1] < curr_end
         THEN MergeLoopStrict(Tail(rest), curr_start, max(curr_end, nxt[2]), merged)
         ELSE MergeLoopStrict(Tail(rest), nxt[1], nxt[2],
                              Append(merged, <<curr_start, curr_end>>))

RECURSIVE MergeLoopOverwrite(_, _, _, _)
MergeLoopOverwrite(rest, curr_start, curr_end, merged) ==
    IF rest = <<>> THEN Append(merged, <<curr_start, curr_end>>)
    ELSE LET nxt == Head(rest) IN
         IF nxt[1] <= curr_end
         THEN MergeLoopOverwrite(Tail(rest), curr_start, nxt[2], merged)
         ELSE MergeLoopOverwrite(Tail(rest), nxt[1], nxt[2],
                                 Append(merged, <<curr_start, curr_end>>))

\* for nxt_start, nxt_end in sorted_intervals[1:]: ...; merged.append(...)
RECURSIVE MergeLoop(_, _, _, _)
MergeLoop(rest, curr_start, curr_end, merged) ==
    IF rest = <<>> THEN Append(merged, <<curr_start, curr_end>>)
    ELSE LET nxt == Head(rest) IN
         IF nxt[1] <= curr_end
         THEN MergeLoop(Tail(rest), curr_start, max(curr_end, nxt[2]), merged)
         ELSE MergeLoop(Tail(rest), nxt[1], nxt[2],
                        Append(merged, <<curr_start, curr_end>>))

merge_intervals(intervals) ==
    IF intervals = <<>> THEN <<>>
    ELSE LET sorted_intervals == sorted_by_start(intervals)
         IN MergeLoop(Tail(sorted_intervals), sorted_intervals[1][1],
                      sorted_intervals[1][2], <<>>)

\* --------------------------------------------- Level.union_of_rectangles
\* Mutant: a rectangle is active only when it reaches strictly beyond x_end.
RECURSIVE ActiveStrictEnd(_, _, _)
ActiveStrictEnd(rs, x_start, x_end) ==
    IF rs = <<>> THEN <<>>
    ELSE LET r == Head(rs) IN
         (IF min(r[1], r[3]) <= x_start /\ max(r[1], r[3]) > x_end
          THEN <<<<r[2], r[4]>>>> ELSE <<>>)
         \o ActiveStrictEnd(Tail(rs), x_start, x_end)

\* for x1, z1, x2, z2 in rects: if min(x1, x2) <= x_start and max(x1, x2) >= x_end: append (z1, z2)
RECURSIVE active_z_ranges(_, _, _)
active_z_ranges(rs, x_start, x_end) ==
    IF rs = <<>> THEN <<>>
    ELSE LET r == Head(rs) IN
         (IF min(r[1], r[3]) <= x_start /\ max(r[1], r[3]) >= x_end
          THEN <<<<r[2], r[4]>>>> ELSE <<>>)
         \o active_z_ranges(Tail(rs), x_start, x_end)

\* for i in range(len(x_coords) - 1): the regions of slab i and of the slabs after it
RECURSIVE SlabLoop(_, _, _)
SlabLoop(rs, x_coords, i) ==
    IF i > Len(x_coords) - 1 THEN <<>>
    ELSE LET x_start == min(x_coords[i], x_coords[i + 1])
             x_end == max(x_coords[i], x_coords[i + 1])
             merged_z == merge_intervals(active_z_ranges(rs, x_start, x_end))
         IN [k \in 1..Len(merged_z) |->
                <<x_start, merged_z[k][1], x_end, merged_z[k][2]>>]
            \o SlabLoop(rs, x_coords, i + 1)

union_of_rectangles(rs) ==
    LET x_coords == sorted_set({rs[k][1] : k \in 1..Len(rs)}
                               \cup {rs[k][3] : k \in 1..Len(rs)})
    IN SlabLoop(rs, x_coords, 1)

\* ------------------------------------------------- Level.update_navmesh
RECURSIVE xz_vertices(_)
xz_vertices(objs) ==
    IF objs = <<>> THEN <<>>
    ELSE LET obj == Head(objs) IN
         (IF obj.clipping = TRUE
          THEN <<<<obj.x1, obj.z1, obj.x1 + obj.width, obj.z1 + obj.depth>>>>
          ELSE <<>>)
         \o xz_vertices(Tail(objs))

update_navmesh(objs) == union_of_rectangles(xz_vertices(objs))

\* -------------------------------------------------- Level.is_in_navmesh
\* Mutants of the test of one region: the far x boundary closed, and the
\* padding subtracted on the far x boundary.
RegionHitClosed(n, pad, x, z) ==
    /\ x > n[1] - pad
    /\ x <= n[3] + pad
    /\ z > n[2] - pad
    /\ z < n[4] + pad

RegionHitShrink(n, pad, x, z) ==
    /\ x > n[1] - pad
    /\ x < n[3] - pad
    /\ z > n[2] - pad
    /\ z < n[4] + pad

RegionHit(n, pad, x, z) ==
    /\ x > n[1] - pad
    /\ x < n[3] + pad
    /\ z > n[2] - pad
    /\ z < n[4] + pad

\* for n in self.navmesh: if ...: return True; return False
RECURSIVE InNavmeshLoop(_, _, _, _)
InNavmeshLoop(nm, pad, x, z) ==
    IF nm = <<>> THEN FALSE
    ELSE IF RegionHit(Head(nm), pad, x, z) THEN TRUE
    ELSE InNavmeshLoop(Tail(nm), pad, x, z)

is_in_navmesh(x, z) == InNavmeshLoop(navmesh, navmesh_padding, x, z)

\* ----------------------------------------------------------- input sets
Coords == 0..MaxCoord
AllTuples == Coords \X Coords \X Coords \X Coords
Footprints == {r \in AllTuples : r[1] <= r[3] /\ r[2] <= r[4]}
SeqsUpTo(S, n) == UNION {[1..k -> S] : k \in 0..n}

\* Objects stand at least the padding away from the camera's start on both
\* axes, so that the start is never inside the navmesh; sizes are the extents
\* of a mesh or box, never negative.
ObjPos == DefaultPadding..(DefaultPadding + MaxPos)
Objects == [x1 : ObjPos, z1 : ObjPos, width : 0..MaxSize, depth : 0..MaxSize,
            clipping : BOOLEAN]
Levels == SeqsUpTo(Objects, MaxObjects)
Paddings == 0..MaxPad
Deltas == (0 - MaxDelta)..MaxDelta
\* The camera is kept within one step around the origin and the objects.
World == (CamStart - 1)..(DefaultPadding + MaxPos + MaxSize + 1)
\* Query points reach one unit beyond every padded footprint.
QueryPoints == (DefaultPadding - MaxPad - 1)..(DefaultPadding + MaxPos + MaxSize + MaxPad + 1)

\* ------------------------------------------------- main: level and loop
\* levelMap = Level(objects=[...]); cam_x, cam_y, cam_z = 0, 0, 0 (the state the loop starts in)
Init ==
    /\ pc = "loop"
    /\ objects \in Levels
    /\ navmesh = update_navmesh(objects)
    /\ navmesh_padding = DefaultPadding
    /\ cam_x = CamStart /\ cam_z = CamStart
    /\ qx = 0 /\ qz = 0 /\ qres = FALSE
    /\ rects = <<>> /\ disjoint_rects = <<>>

\* Mutant: the z test made at the x position held before the x move.
StepStaleX(ddx, ddz) ==
    /\ pc = "loop"
    /\ cam_x + ddx \in World /\ cam_z + ddz \in World
    /\ cam_x' = IF ~is_in_navmesh(cam_x + ddx, cam_z) THEN cam_x + ddx ELSE cam_x
    /\ cam_z' = IF ~is_in_navmesh(cam_x, cam_z + ddz) THEN cam_z + ddz ELSE cam_z
    /\ UNCHANGED <<pc, objects, navmesh, navmesh_padding, qx, qz, qres,
                   rects, disjoint_rects>>

\* One pass of the main loop with the deltas (ddx, ddz) of the pressed keys.
Step(ddx, ddz) ==
    /\ pc = "loop"
    /\ cam_x + ddx \in World /\ cam_z + ddz \in World
    /\ LET new_x == IF ~is_in_navmesh(cam_x + ddx, cam_z) THEN cam_x + ddx ELSE cam_x
           new_z == IF ~is_in_navmesh(new_x, cam_z + ddz) THEN cam_z + ddz ELSE cam_z
       IN cam_x' = new_x /\ cam_z' = new_z
    /\ UNCHANGED <<pc, objects, navmesh, navmesh_padding, qx, qz, qres,
                   rects, disjoint_rects>>

\* pg.QUIT or the escape key: pg.quit(); sys.exit()
Quit ==
    /\ pc = "loop"
    /\ pc' = "exited"
    /\ UNCHANGED <<objects, navmesh, navmesh_padding, cam_x, cam_z, qx, qz, qres,
                   rects, disjoint_rects>>

Next ==
    \/ \E ddx \in Deltas, ddz \in Deltas : Step(ddx, ddz)
    \/ Quit

Spec == Init /\ [][Next]_vars

\* ------------------------------------- is_in_navmesh as a function
\* A Level built from the objects, its navmesh_padding attribute any of
\* Paddings (0.3 is one value of it), asked about one point.
InitQuery ==
    /\ pc = "ask"
    /\ objects \in Levels
    /\ navmesh = update_navmesh(objects)
    /\ navmesh_padding \in Paddings
    /\ qx \in QueryPoints /\ qz \in QueryPoints /\ qres = FALSE
    /\ cam_x = CamStart /\ cam_z = CamStart
    /\ rects = <<>> /\ disjoint_rects = <<>>

Answer ==
    /\ pc = "ask"
    /\ qres' = is_in_navmesh(qx, qz)
    /\ pc' = "answered"
    /\ UNCHANGED <<objects, navmesh, navmesh_padding, cam_x, cam_z, qx, qz,
                   rects, disjoint_rects>>

NextQuery == Answer

SpecQuery == InitQuery /\ [][NextQuery]_vars

\* ------------------------------- union_of_rectangles as a function
IdleLevel ==
    /\ objects = <<>> /\ navmesh = <<>> /\ navmesh_padding = DefaultPadding
    /\ cam_x = CamStart /\ cam_z = CamStart
    /\ qx = 0 /\ qz = 0 /\ qres = FALSE

\* Normalized footprints (x1 <= x2, z1 <= z2), zero-area ones and duplicates included.
InitUnion ==
    /\ pc = "call"
    /\ rects \in SeqsUpTo(Footprints, MaxRects)
    /\ disjoint_rects = <<>>
    /\ IdleLevel

\* Any coordinate tuples, malformed ones (x1 > x2 or z1 > z2) included.
InitRaw ==
    /\ pc = "call"
    /\ rects \in SeqsUpTo(AllTuples, MaxRects)
    /\ disjoint_rects = <<>>
    /\ IdleLevel

Call ==
    /\ pc = "call"
    /\ disjoint_rects' = union_of_rectangles(rects)
    /\ pc' = "ret"
    /\ UNCHANGED <<objects, navmesh, navmesh_padding, cam_x, cam_z, qx, qz, qres,
                   rects>>

NextUnion == Call

SpecUnion == InitUnion /\ [][NextUnion]_vars

SpecRaw == InitRaw /\ [][NextUnion]_vars

\* =================================================================
\* Properties of union_of_rectangles (SpecUnion, SpecRaw)
\* =================================================================
\* Exact area comparison on the half-unit grid: every vertex, edge midpoint
\* and cell centre of the integer grid, as the point <<2x, 2z>>.
HalfPoints == (0..(2 * MaxCoord)) \X (0..(2 * MaxCoord))

\* The points of HalfPoints inside some rectangle of rs, rectangles closed.
Covered(rs) ==
    {p \in HalfPoints : \E k \in 1..Len(rs) :
        /\ 2 * rs[k][1] <= p[1] /\ p[1] <= 2 * rs[k][3]
        /\ 2 * rs[k][2] <= p[2] /\ p[2] <= 2 * rs[k][4]}

\* The open interiors of the rectangles a and b intersect.
InteriorsMeet(a, b) ==
    /\ max(a[1], b[1]) < min(a[3], b[3])
    /\ max(a[2], b[2]) < min(a[4], b[4])

\* The rectangles a and b share an x range of positive width.
XOverlap(a, b) == max(a[1], b[1]) < min(a[3], b[3])

PairwiseDisjoint(rs) ==
    \A i \in 1..Len(rs), j \in 1..Len(rs) : i # j => ~InteriorsMeet(rs[i], rs[j])

\* C1: after union_of_rectangles returns, a point lies in some input
\* rectangle if and only if it lies in some output region (closed sets).
C1_UnionCorrect ==
    pc = "ret" => Covered(rects) = Covered(disjoint_rects)

\* C2: the interiors of two distinct output regions never intersect.
C2_Disjoint ==
    pc = "ret" => PairwiseDisjoint(disjoint_rects)

\* C2's case: two input rectangles whose interiors intersect, and an output
\* of several regions.
C2_Witness ==
    /\ pc = "ret"
    /\ Len(disjoint_rects) >= 2
    /\ \E i \in 1..Len(rects), j \in 1..Len(rects) :
           i # j /\ InteriorsMeet(rects[i], rects[j])

Malformed(r) == r[1] > r[3] \/ r[2] > r[4]

\* C3: union_of_rectangles returns a region list only when no input
\* rectangle is malformed (on a malformed one it fails with InvalidGeometry
\* instead of returning).
C3_RejectsMalformed ==
    pc = "ret" => \A k \in 1..Len(rects) : ~Malformed(rects[k])

\* The slabs: the pairs of adjacent distinct x coordinates of the input.
XCoords(rs) == {rs[k][1] : k \in 1..Len(rs)} \cup {rs[k][3] : k \in 1..Len(rs)}
Slabs(rs) ==
    {s \in XCoords(rs) \X XCoords(rs) :
        s[1] < s[2] /\ ~\E c \in XCoords(rs) : s[1] < c /\ c < s[2]}

\* The half-unit z positions covered by the rectangles that span slab s.
ZCover(rs, s) ==
    {v \in 0..(2 * MaxCoord) : \E k \in 1..Len(rs) :
        /\ rs[k][1] <= s[1] /\ rs[k][3] >= s[2]
        /\ 2 * rs[k][2] <= v /\ v <= 2 * rs[k][4]}

\* The number of maximal runs of a set of integers.
Components(D) == Cardinality({v \in D : (v - 1) \notin D})

RegionsOfSlab(out, s) == {k \in 1..Len(out) : out[k][1] = s[1] /\ out[k][3] = s[2]}

\* Input rectangle j contains every input rectangle.
ContainsAll(rs, j) ==
    \A k \in 1..Len(rs) :
        /\ rs[j][1] <= rs[k][1] /\ rs[j][3] >= rs[k][3]
        /\ rs[j][2] <= rs[k][2] /\ rs[j][4] >= rs[k][4]

\* Some list of fewer pairwise interior-disjoint rectangles covers exactly
\* the area of out.
FewerCover(out) ==
    \E n \in 0..(Len(out) - 1) : \E f \in [1..n -> Footprints] :
        PairwiseDisjoint(f) /\ Covered(f) = Covered(out)

\* C5 as stated: no fewer pairwise interior-disjoint rectangles cover the
\* output's area, and an input rectangle (of positive width, so that the
\* x range it spans is one) that contains every input is the whole output.
C5_Minimal ==
    pc = "ret" =>
        /\ ~FewerCover(disjoint_rects)
        /\ \A j \in 1..Len(rects) :
               (ContainsAll(rects, j) /\ rects[j][1] < rects[j][3])
                   => disjoint_rects = <<rects[j]>>

\* C5 amended: minimal within each slab. Every output region spans exactly
\* one slab, a slab holds one region per connected piece of the z ranges of
\* the rectangles spanning it, and an input rectangle that contains every
\* input comes out as one region per slab with that rectangle's z range.
C5_SlabMinimal ==
    pc = "ret" =>
        /\ \A k \in 1..Len(disjoint_rects) :
               <<disjoint_rects[k][1], disjoint_rects[k][3]>> \in Slabs(rects)
        /\ \A s \in Slabs(rects) :
               Cardinality(RegionsOfSlab(disjoint_rects, s))
                   = Components(ZCover(rects, s))
        /\ \A j \in 1..Len(rects) :
               ContainsAll(rects, j) =>
                   /\ Len(disjoint_rects) = Cardinality(Slabs(rects))
                   /\ \A k \in 1..Len(disjoint_rects) :
                          /\ disjoint_rects[k][2] = rects[j][2]
                          /\ disjoint_rects[k][4] = rects[j][4]

\* C5's case: one input rectangle contains the others, whose x coordinates
\* cut it into several slabs, and z ranges that touch were merged.
C5_Witness ==
    /\ pc = "ret"
    /\ \E j \in 1..Len(rects) : ContainsAll(rects, j)
    /\ Len(disjoint_rects) >= 2
    /\ \E i \in 1..Len(rects), j \in 1..Len(rects) :
           /\ i # j /\ XOverlap(rects[i], rects[j])
           /\ rects[i][4] = rects[j][2]
           /\ rects[i][2] < rects[i][4] /\ rects[j][2] < rects[j][4]

\* C6: the builder applied to its own output covers the same area with no
\* more regions than it was given.
C6_Idempotent ==
    pc = "ret" =>
        LET again == union_of_rectangles(disjoint_rects)
        IN /\ Covered(again) = Covered(disjoint_rects)
           /\ Len(again) <= Len(disjoint_rects)

\* C6's case: an output of several regions that differs from the input.
C6_Witness ==
    /\ pc = "ret"
    /\ Len(disjoint_rects) >= 2
    /\ disjoint_rects # rects
    /\ Covered(disjoint_rects) # {}

InputOrders(n) == {f \in [1..n -> 1..n] : \A i, j \in 1..n : i # j => f[i] # f[j]}

\* C7: every reordering of the input gives an output covering the same area.
C7_OrderIndependent ==
    pc = "ret" =>
        \A f \in InputOrders(Len(rects)) :
            Covered(union_of_rectangles([i \in 1..Len(rects) |-> rects[f[i]]]))
                = Covered(disjoint_rects)

\* C7's case: two rectangles sharing a slab, given with the larger z start
\* first, whose z ranges were merged.
C7_Witness ==
    /\ pc = "ret"
    /\ \E i \in 1..Len(rects), j \in 1..Len(rects) :
           /\ i < j
           /\ rects[i][2] > rects[j][2]
           /\ rects[i][2] <= rects[j][4]
           /\ XOverlap(rects[i], rects[j])
    /\ disjoint_rects # <<>>

\* =================================================================
\* Properties of is_in_navmesh (SpecQuery)
\* =================================================================
\* The strict padded test of the point (x, z) against the rectangle r.
StrictlyInside(r, pad, x, z) ==
    /\ x > r[1] - pad /\ x < r[3] + pad
    /\ z > r[2] - pad /\ z < r[4] + pad

\* C4: the query is true exactly when some region holds the point strictly
\* inside its padded bounds; a point on a padded boundary and inside no other
\* padded region is not contained, and no point is contained in an empty
\* region list.
C4_OpenBoundary ==
    pc = "answered" =>
        /\ qres = (\E k \in 1..Len(navmesh) :
                      /\ qx > navmesh[k][1] - navmesh_padding
                      /\ qx < navmesh[k][3] + navmesh_padding
                      /\ qz > navmesh[k][2] - navmesh_padding
                      /\ qz < navmesh[k][4] + navmesh_padding)
        /\ (navmesh = <<>> => qres = FALSE)
        /\ ((/\ \E k \in 1..Len(navmesh) : qx = navmesh[k][3] + navmesh_padding
             /\ ~\E k \in 1..Len(navmesh) :
                    StrictlyInside(navmesh[k], navmesh_padding, qx, qz))
            => qres = FALSE)

\* C4's case: the point is on the padded far x boundary of a region, within
\* that region's padded z range, and the query answered false.
C4_Witness ==
    /\ pc = "answered"
    /\ qres = FALSE
    /\ \E k \in 1..Len(navmesh) :
           /\ qx = navmesh[k][3] + navmesh_padding
           /\ qz > navmesh[k][2] - navmesh_padding
           /\ qz < navmesh[k][4] + navmesh_padding

\* C8: a point the query contains with the Level's padding is contained
\* with every larger padding.
C8_PaddingMonotone ==
    (pc = "answered" /\ qres = TRUE) =>
        \A p2 \in (navmesh_padding + 1)..(MaxPad + 1) :
            InNavmeshLoop(navmesh, p2, qx, qz)

\* C8's case: a point contained with a padding below the largest one.
C8_Witness ==
    /\ pc = "answered"
    /\ qres = TRUE
    /\ navmesh_padding < MaxPad
    /\ Len(navmesh) >= 2

\* Every clipping object has a footprint of positive width (object sizes are
\* never negative, so every footprint is normalized).
ClippingWide(objs) ==
    \A k \in 1..Len(objs) :
        objs[k].clipping => (objs[k].width > 0 /\ objs[k].depth >= 0)

\* The strict padded test made directly on the clipping objects' footprints.
RawBlocked(objs, pad, x, z) ==
    \E k \in 1..Len(objs) :
        /\ objs[k].clipping
        /\ StrictlyInside(<<objs[k].x1, objs[k].z1, objs[k].x1 + objs[k].width,
                            objs[k].z1 + objs[k].depth>>, pad, x, z)

\* C10: with a positive padding and clipping footprints of positive width,
\* the query on the built regions answers what the strict padded test on the
\* raw clipping footprints answers; non-clipping objects contribute nothing.
C10_SameBlockedArea ==
    (pc = "answered" /\ navmesh_padding > 0 /\ ClippingWide(objects)) =>
        qres = RawBlocked(objects, navmesh_padding, qx, qz)

\* C10's case: a contained point on the x boundary that two adjacent regions
\* share.
C10_Witness ==
    /\ pc = "answered"
    /\ navmesh_padding > 0
    /\ ClippingWide(objects)
    /\ qres = TRUE
    /\ \E i \in 1..Len(navmesh), j \in 1..Len(navmesh) :
           navmesh[i][3] = qx /\ navmesh[j][1] = qx

\* =================================================================
\* The camera in the main loop (Spec)
\* =================================================================
\* C9: from a start outside the navmesh the camera position is never inside
\* it; every step tests the x move at (cam_x + dx, cam_z), then the z move at
\* (new cam_x, cam_z + dz), keeps the coordinate of a vetoed axis, and leaves
\* the navmesh and the padding as they are.
C9_NeverBlocked ==
    /\ [](~is_in_navmesh(CamStart, CamStart) => ~is_in_navmesh(cam_x, cam_z))
    /\ [][/\ navmesh' = navmesh
          /\ navmesh_padding' = navmesh_padding
          /\ \E ddx \in Deltas, ddz \in Deltas :
                 /\ cam_x' = IF is_in_navmesh(cam_x + ddx, cam_z)
                             THEN cam_x ELSE cam_x + ddx
                 /\ cam_z' = IF is_in_navmesh(cam_x', cam_z + ddz)
                             THEN cam_z ELSE cam_z + ddz]_vars

\* C9's case: the camera has left the start and stands in a corner of the
\* blocked area, where a step in +x and a step in +z are both vetoed.
C9_Witness ==
    /\ pc = "loop"
    /\ <<cam_x, cam_z>> # <<CamStart, CamStart>>
    /\ ~is_in_navmesh(cam_x, cam_z)
    /\ is_in_navmesh(cam_x + 1, cam_z)
    /\ is_in_navmesh(cam_x, cam_z + 1)

====
